---- MODULE Spec2Model ----
(***************************************************************************)
(* Model of onemod_diagnostics.figure.plot_result (plot_result.py).        *)
(*                                                                         *)
(* One call of plot_result is a run of the state machine: Layout (lines    *)
(* 82-84), RecoverKeys (85-101), one DrawFinite step per region (103-107), *)
(* one InfPass step per region (110-120) and Legend (122-131).  The        *)
(* plotting library is modelled by what the function observes of it: the   *)
(* regions the facet layout creates and their titles, the artists put on   *)
(* each region, and the y-axis view limits with autoscaling, scale and     *)
(* sharing.                                                                *)
(***************************************************************************)
EXTENDS Integers, Sequences, FiniteSets, TLC

\* ------------------------------------------------------------------ bounds
MaxRows == 2
MaxY == 2

\* the sentinels standing for +inf and -inf of a y column (line 116)
PosInf == 99
NegInf == -99

Fin == 1..MaxY
YVals == {NegInf, PosInf} \cup Fin
IsInf(v) == v \in {NegInf, PosInf}

\* ------------------------------------------------------------- sequences
RECURSIVE SeqToSet(_)
SeqToSet(s) == IF s = <<>> THEN {} ELSE {Head(s)} \cup SeqToSet(Tail(s))

RECURSIVE Flatten(_)
Flatten(ss) == IF ss = <<>> THEN <<>> ELSE Head(ss) \o Flatten(Tail(ss))

SetMin(S) == CHOOSE m \in S : \A n \in S : m <= n
SetMax(S) == CHOOSE m \in S : \A n \in S : m >= n

\* ------------------------------------------------- facet values and text
\* A facet value is [kind, n, s]: kind is the column's dtype; n carries an
\* int64 value, a bool (0/1) or a float64 in tenths; s the characters of an
\* object (str) value.
IntV(n) == [kind |-> "int", n |-> n, s |-> <<>>]
BoolV(b) == [kind |-> "bool", n |-> IF b THEN 1 ELSE 0, s |-> <<>>]
FloatV(t) == [kind |-> "float", n |-> t, s |-> <<>>]
StrV(s) == [kind |-> "str", n |-> 0, s |-> s]
NoKey == [kind |-> "none", n |-> 0, s |-> <<>>]

DigitChars == <<"0", "1", "2", "3", "4", "5", "6", "7", "8", "9">>
IsDigit(c) == \E d \in 1..10 : DigitChars[d] = c
DigitVal(c) == (CHOOSE d \in 1..10 : DigitChars[d] = c) - 1

RECURSIVE Digits(_)
Digits(n) == IF n < 10 THEN <<DigitChars[n + 1]>>
             ELSE Digits(n \div 10) \o <<DigitChars[(n % 10) + 1]>>

\* f"{value}" of a facet value, as the layout engine writes it in a title
Str(v) ==
    CASE v.kind = "int" -> Digits(v.n)
      [] v.kind = "bool" -> IF v.n = 1 THEN <<"T", "r", "u", "e">>
                            ELSE <<"F", "a", "l", "s", "e">>
      [] v.kind = "float" -> Digits(v.n \div 10) \o <<".">> \o Digits(v.n % 10)
      [] v.kind = "str" -> v.s
      [] OTHER -> <<>>

Sep == <<" ", "|", " ">>

RECURSIVE Join(_)
\* " | ".join(parts)
Join(parts) ==
    IF parts = <<>> THEN <<>>
    ELSE IF Len(parts) = 1 THEN Head(parts)
    ELSE Head(parts) \o Sep \o Join(Tail(parts))

StartsWithSep(cs) == Len(cs) >= Len(Sep) /\ SubSeq(cs, 1, Len(Sep)) = Sep

RECURSIVE SplitFrom(_, _)
\* str.split(" | "): cur is the part being read
SplitFrom(cs, cur) ==
    IF cs = <<>> THEN <<cur>>
    ELSE IF StartsWithSep(cs)
         THEN <<cur>> \o SplitFrom(SubSeq(cs, Len(Sep) + 1, Len(cs)), <<>>)
         ELSE SplitFrom(Tail(cs), Append(cur, Head(cs)))

Split(cs) == SplitFrom(cs, <<>>)

RECURSIVE ParseNat(_, _)
ParseNat(cs, acc) == IF cs = <<>> THEN acc
                     ELSE ParseNat(Tail(cs), 10 * acc + DigitVal(Head(cs)))

IsNat(cs) == cs # <<>> /\ \A k \in 1..Len(cs) : IsDigit(cs[k])

DotAt(cs) == {k \in 1..Len(cs) : cs[k] = "."}

\* can the text be cast to the dtype (Series.astype)
CanCast(cs, kind) ==
    CASE kind = "int" -> IsNat(cs)
      [] kind = "float" ->
            /\ Cardinality(DotAt(cs)) = 1
            /\ LET d == CHOOSE k \in DotAt(cs) : TRUE
               IN IsNat(SubSeq(cs, 1, d - 1)) /\ d + 1 = Len(cs) /\ IsDigit(cs[Len(cs)])
      [] OTHER -> TRUE

\* Series.astype(dtype) of one title part
AsType(cs, kind) ==
    CASE kind = "int" -> IntV(ParseNat(cs, 0))
      [] kind = "bool" -> BoolV(cs # <<>>)
      [] kind = "float" ->
            LET d == CHOOSE k \in DotAt(cs) : TRUE
            IN FloatV(10 * ParseNat(SubSeq(cs, 1, d - 1), 0) + DigitVal(cs[Len(cs)]))
      [] OTHER -> StrV(cs)

\* the literal repr(v) that line 98 writes into the query string
Repr(v) == IF v.kind = "str" THEN <<"'">> \o v.s \o <<"'">> ELSE Str(v)

\* the value DataFrame.query reads back from a literal of the query string
EvalLiteral(cs) ==
    IF cs # <<>> /\ Head(cs) = "'" THEN StrV(SubSeq(cs, 2, Len(cs) - 1))
    ELSE IF cs = <<"T", "r", "u", "e">> THEN BoolV(TRUE)
    ELSE IF cs = <<"F", "a", "l", "s", "e">> THEN BoolV(FALSE)
    ELSE IF DotAt(cs) # {} THEN AsType(cs, "float")
    ELSE AsType(cs, "int")

\* ------------------------------------------------------------ data frames
\* A frame is a sequence of rows; a row is a record of its index label idx
\* and of the columns x, c, r (facet keys), y1, y2, l1.
Columns == {"x", "c", "r", "y1", "y2", "l1"}

\* the heap of frames: id 0 is the caller's data
DataId == 0
FreshId(h) == SetMax(DOMAIN h) + 1

\* DataFrame.query and reset_index return a new frame (lines 99, 116)
QueryTargetInPlace(ref, fresh) == ref
QueryTarget(ref, fresh) == fresh

Store(h, id, rows) == [k \in DOMAIN h \cup {id} |-> IF k = id THEN rows ELSE h[k]]

\* reset_index(drop=True): the index labels become the positions
ResetIndex(rows) == [k \in 1..Len(rows) |-> [rows[k] EXCEPT !.idx = k]]

\* data[by].dtypes of one facet column
Dtype(rows, k) == rows[1][k].kind

\* ---------------------------------------------------- the facet layout
RECURSIVE Distinct(_, _)
Distinct(s, seen) ==
    IF s = <<>> THEN <<>>
    ELSE IF Head(s) \in seen THEN Distinct(Tail(s), seen)
    ELSE <<Head(s)>> \o Distinct(Tail(s), seen \cup {Head(s)})

RECURSIVE SortByN(_)
SortByN(s) ==
    IF s = <<>> THEN <<>>
    ELSE LET m == CHOOSE k \in 1..Len(s) : \A j \in 1..Len(s) : s[k].n <= s[j].n
         IN <<s[m]>> \o SortByN(SubSeq(s, 1, m - 1) \o SubSeq(s, m + 1, Len(s)))

\* seaborn's categorical_order: the distinct values of the column, sorted
\* when the column is numeric, in order of appearance otherwise
CategoricalOrder(rows, k) ==
    LET d == Distinct([j \in 1..Len(rows) |-> rows[j][k]], {})
    IN IF Dtype(rows, k) = "str" THEN d ELSE SortByN(d)

By(fo) == (IF fo.col # "none" THEN <<fo.col>> ELSE <<>>)
          \o (IF fo.row # "none" THEN <<fo.row>> ELSE <<>>)

\* the grid of a row of the facet layout: one key per column value
GridRowPresentOnly(rows, fo, cs, rv) ==
    SelectSeq([j \in 1..Len(cs) |-> [col |-> cs[j], row |-> rv]],
              LAMBDA key : \E j \in 1..Len(rows) :
                  /\ (fo.col # "none" => rows[j][fo.col] = key.col)
                  /\ (fo.row # "none" => rows[j][fo.row] = key.row))
GridRow(rows, fo, cs, rv) == [j \in 1..Len(cs) |-> [col |-> cs[j], row |-> rv]]

\* Plot.facet(**facet_options): the key of every region, in the order of
\* fig.get_axes() (row-major over the grid)
FacetKeys(rows, fo) ==
    LET cs == IF fo.col # "none" THEN CategoricalOrder(rows, fo.col) ELSE <<NoKey>>
        rs == IF fo.row # "none" THEN CategoricalOrder(rows, fo.row) ELSE <<NoKey>>
    IN Flatten([j \in 1..Len(rs) |-> GridRow(rows, fo, cs, rs[j])])

\* the title the layout engine gives a region: the col value, then the row
\* value, joined by " | "
Title(key) ==
    Join((IF key.col.kind # "none" THEN <<Str(key.col)>> ELSE <<>>)
         \o (IF key.row.kind # "none" THEN <<Str(key.row)>> ELSE <<>>))

\* ------------------------------------------------------ regions (axes)
\* A region: its title, the key the layout engine holds for it, the artists
\* drawn on it, its x and y scale, and its y view limits (ylim is read only
\* while yauto is off: set_ylim has fixed the limits).
NewAxes(key) ==
    [title |-> Title(key), key |-> key, artists |-> <<>>,
     xscale |-> "linear", yscale |-> "linear", yauto |-> TRUE, ylim |-> <<0, 1>>]

\* the regions whose y axis moves with region j's
YGroup(axs, j, so) == IF so.y THEN DOMAIN axs ELSE {j}
XGroup(axs, j, so) == IF so.x THEN DOMAIN axs ELSE {j}

\* the rows of a frame with a finite value in column y, as (x, y) points:
\* scatter and plot leave non-finite points out
FinitePts(rows, xc, yc) ==
    LET f == SelectSeq(rows, LAMBDA row : ~IsInf(row[yc]))
    IN [k \in 1..Len(f) |-> <<f[k][xc], f[k][yc]>>]

Artist(kind, label, pts) == [kind |-> kind, label |-> label, pts |-> pts]

\* ax.scatter(df[x], df[y], label=y) / ax.plot(df[x], df[y], label=y)
scatter(axs, j, rows, xc, yc) ==
    [axs EXCEPT ![j].artists = Append(@, Artist("scatter", yc, FinitePts(rows, xc, yc)))]
plot(axs, j, rows, xc, yc) ==
    [axs EXCEPT ![j].artists = Append(@, Artist("line", yc, FinitePts(rows, xc, yc)))]

\* the y values drawn on a region
DataYs(ax) ==
    UNION {{a.pts[k][2] : k \in 1..Len(a.pts)} : a \in SeqToSet(ax.artists)}

\* autoscaling: the view limits enclose the data with a margin that depends
\* on the scale (a log axis ignores values that are not positive)
AutoLim(ys, scale) ==
    IF scale = "log"
    THEN LET pos == {v \in ys : v > 0}
         IN IF pos = {} THEN <<1, 10>> ELSE <<SetMin(pos), 2 * SetMax(pos)>>
    ELSE IF ys = {} THEN <<0, 1>> ELSE <<SetMin(ys) - 1, SetMax(ys) + 1>>

\* ax.get_ylim()
get_ylim(axs, j, so) ==
    IF axs[j].yauto
    THEN AutoLim(UNION {DataYs(axs[g]) : g \in YGroup(axs, j, so)}, axs[j].yscale)
    ELSE axs[j].ylim

\* ax.set_ylim(ylim): fixes the limits and turns autoscaling off, on every
\* region sharing the axis
set_ylim_skipped(axs, j, lim, so) == axs
set_ylim(axs, j, lim, so) ==
    [g \in DOMAIN axs |->
        IF g \in YGroup(axs, j, so)
        THEN [axs[g] EXCEPT !.ylim = lim, !.yauto = FALSE] ELSE axs[g]]

\* getattr(ax, f"set_{name}scale")(scale)
set_scale(axs, j, name, scale, so) ==
    [g \in DOMAIN axs |->
        IF name = "y" /\ g \in YGroup(axs, j, so) THEN [axs[g] EXCEPT !.yscale = scale]
        ELSE IF name = "x" /\ g \in XGroup(axs, j, so) THEN [axs[g] EXCEPT !.xscale = scale]
        ELSE axs[g]]

RECURSIVE ApplyScales(_, _, _, _)
\* lines 111-112: for name, scale in scale_options.items()
ApplyScales(axs, j, opts, so) ==
    IF opts = <<>> THEN axs
    ELSE ApplyScales(set_scale(axs, j, Head(opts)[1], Head(opts)[2], so), j, Tail(opts), so)

\* Series.clip(lower, upper)
clip(v, lim) == IF v < lim[1] THEN lim[1] ELSE IF v > lim[2] THEN lim[2] ELSE v

\* ------------------------------------------------------------------ state
VARIABLES
    data_in,        \* the caller's dataset as it was when the call began
    frames,         \* the frames alive during the call: id -> rows
    x, y_dots, y_line, facet_options, share_options, scale_options,
    pc,             \* where the call is: "layout", "keys", "finite", "inf",
                    \* "legend", "done" (returned) or "error" (raised)
    i,              \* the region the current loop is at
    axes,           \* fig.get_axes()
    values,         \* the facet keys recovered from the titles (line 92)
    data_list,      \* the frame id paired with each region
    ylims,          \* the ylim captured at line 114, per region
    legend,         \* the figure's legend: its labels and column count
    result,         \* what the call returned: "none" or "fig"
    err             \* the exception that ended the call, or "none"

vars == <<data_in, frames, x, y_dots, y_line, facet_options, share_options,
          scale_options, pc, i, axes, values, data_list, ylims, legend, result, err>>

args == <<data_in, x, y_dots, y_line, facet_options, share_options, scale_options>>

data == frames[DataId]
NoLim == <<>>
NoLegend == [labels |-> <<>>, ncol |-> 0]

\* ------------------------------------------------------------- the inputs
MkFrame(cells) ==
    [k \in 1..Len(cells) |->
        [idx |-> k - 1, x |-> k, c |-> cells[k].c, r |-> cells[k].r,
         y1 |-> cells[k].y1, y2 |-> cells[k].y2, l1 |-> cells[k].l1]]

Frames(dom) == {MkFrame(cells) : cells \in UNION {[1..n -> dom] : n \in 1..MaxRows}}

SepStr == <<"a", " ", "|", " ", "b">>

\* two values of each supported dtype of a facet column
KindVals(kind) ==
    CASE kind = "int" -> {IntV(1), IntV(2)}
      [] kind = "float" -> {FloatV(5), FloatV(15)}
      [] kind = "bool" -> {BoolV(FALSE), BoolV(TRUE)}
      [] kind = "str" -> {StrV(<<"a">>), StrV(SepStr)}

Call(rows, xx, yd, yl, fo, so, sc) ==
    /\ data_in = rows
    /\ frames = [k \in {DataId} |-> rows]
    /\ x = xx /\ y_dots = yd /\ y_line = yl
    /\ facet_options = fo /\ share_options = so /\ scale_options = sc
    /\ pc = "layout" /\ i = 0
    /\ axes = <<>> /\ values = <<>> /\ data_list = <<>> /\ ylims = <<>>
    /\ legend = NoLegend /\ result = "none" /\ err = "none"

NoFacet == [col |-> "none", row |-> "none"]
ColFacet == [col |-> "c", row |-> "none"]
RowFacet == [col |-> "none", row |-> "r"]
GridFacet == [col |-> "c", row |-> "r"]
LogScales == << <<"x", "log">>, <<"y", "log">> >>

\* calls with one y_dots column that vary its values, the line column,
\* sharing and scales
InitSeries ==
    \E fo \in {NoFacet, ColFacet} :
    \E rows \in Frames([c : IF fo.col = "none" THEN {IntV(1)} ELSE KindVals("int"),
                        r : {IntV(1)}, y1 : YVals, y2 : {1}, l1 : {1}]) :
    \E yl \in {<<"l1">>, <<"y1">>} :
    \E sy \in BOOLEAN :
    \E sc \in {<<>>, LogScales} :
        Call(rows, "x", <<"y1">>, yl, fo, [x |-> TRUE, y |-> sy], sc)

\* calls with two y_dots columns, in either order
InitTwoDots ==
    \E fo \in {NoFacet, ColFacet} :
    \E rows \in Frames([c : IF fo.col = "none" THEN {IntV(1)} ELSE KindVals("int"),
                        r : {IntV(1)}, y1 : {NegInf, 1, PosInf}, y2 : {1, PosInf},
                        l1 : {1}]) :
    \E yd \in {<<"y1", "y2">>, <<"y2", "y1">>} :
    \E sy \in BOOLEAN :
    \E sc \in {<<>>, LogScales} :
        Call(rows, "x", yd, <<"l1">>, fo, [x |-> TRUE, y |-> sy], sc)

\* calls that vary the facet keys and the dtype of the col key
InitFacets ==
    \E kind \in {"int", "float", "bool", "str"} :
    \E fo \in {ColFacet, RowFacet, GridFacet} :
    \E rows \in Frames([c : KindVals(kind), r : KindVals("int"),
                        y1 : {1, PosInf}, y2 : {1}, l1 : {1}]) :
        Call(rows, "x", <<"y1">>, <<"l1">>, fo, [x |-> TRUE, y |-> TRUE], <<>>)

\* calls that name missing columns or no series at all
InitColumns ==
    \E fo \in {NoFacet, ColFacet} :
    \E rows \in Frames([c : KindVals("int"), r : {IntV(1)},
                        y1 : {1, PosInf}, y2 : {1}, l1 : {1}]) :
    \E xx \in {"x", "nope"} :
    \E yd \in {<<>>, <<"y1">>, <<"nope">>, <<"y1", "nope">>} :
    \E yl \in {<<>>, <<"l1">>, <<"nope">>} :
        Call(rows, xx, yd, yl, fo, [x |-> TRUE, y |-> TRUE], <<>>)

\* calls that name a missing column while a title cannot be split into keys
InitColumnsSep ==
    \E rows \in Frames([c : KindVals("str"), r : {IntV(1)},
                        y1 : {1, PosInf}, y2 : {1}, l1 : {1}]) :
    \E yd \in {<<"y1">>, <<"nope">>} :
        Call(rows, "x", yd, <<"l1">>, ColFacet, [x |-> TRUE, y |-> TRUE], <<>>)

Init == InitSeries \/ InitTwoDots \/ InitFacets \/ InitColumns \/ InitColumnsSep

\* ------------------------------------------------------------ the actions
\* lines 82-84: build the figure and the facet layout.  Plot(data, x=x)
\* raises for a name that is no column of data.
Layout ==
    /\ pc = "layout"
    /\ x \in Columns
    /\ axes' = [k \in 1..Len(FacetKeys(data, facet_options)) |->
                    NewAxes(FacetKeys(data, facet_options)[k])]
    /\ pc' = "keys"
    /\ UNCHANGED <<args, frames, i, values, data_list, ylims, legend, result, err>>

LayoutFail ==
    /\ pc = "layout"
    /\ x \notin Columns
    /\ pc' = "error" /\ err' = "lookup"
    /\ UNCHANGED <<args, frames, i, axes, values, data_list, ylims, legend, result>>

\* line 93: the parts of every title
TitleParts == [k \in 1..Len(axes) |-> Split(axes[k].title)]

\* line 92-94: DataFrame(data=parts, columns=by) needs as many parts as keys
\* (a title never has fewer parts than keys)
ShapeOk == \A k \in 1..Len(axes) : Len(TitleParts[k]) = Len(By(facet_options))

\* line 95: every part casts to the dtype of its column
CastOk ==
    \A k \in 1..Len(axes) : \A b \in 1..Len(By(facet_options)) :
        CanCast(TitleParts[k][b], Dtype(data, By(facet_options)[b]))

\* lines 92-95: the recovered keys, one record per region
RecoveredValues ==
    [k \in 1..Len(axes) |->
        [b \in SeqToSet(By(facet_options)) |->
            LET pos == CHOOSE p \in 1..Len(By(facet_options)) : By(facet_options)[p] = b
            IN AsType(TitleParts[k][pos], Dtype(data, b))]]

\* lines 98-99: data.query("k1 == repr(v1) & k2 == repr(v2)")
Query(rows, value) ==
    SelectSeq(rows, LAMBDA row :
        \A b \in DOMAIN value : row[b] = EvalLiteral(Repr(value[b])))

RECURSIVE QueryAll(_, _, _)
\* lines 96-99: one queried frame per recovered key; the result is the heap
QueryAll(h, vals, k) ==
    IF k > Len(vals) THEN h
    ELSE QueryAll(Store(h, QueryTarget(DataId, FreshId(h)), Query(h[DataId], vals[k])),
                  vals, k + 1)

\* lines 85-101: pair every region with its subset of data
RecoverKeys ==
    /\ pc = "keys"
    /\ IF By(facet_options) # <<>>
       THEN /\ ShapeOk /\ CastOk
            /\ values' = RecoveredValues
            /\ frames' = QueryAll(frames, RecoveredValues, 1)
            /\ data_list' = [k \in 1..Len(axes) |-> QueryTarget(DataId, k)]
       ELSE /\ values' = <<>>
            /\ frames' = frames
            /\ data_list' = <<DataId>>
    /\ ylims' = [k \in 1..Len(axes) |-> NoLim]
    /\ pc' = "finite" /\ i' = 1
    /\ UNCHANGED <<args, axes, legend, result, err>>

RecoverKeysFail ==
    /\ pc = "keys"
    /\ By(facet_options) # <<>>
    /\ ~(ShapeOk /\ CastOk)
    /\ pc' = "error"
    /\ err' = IF ~ShapeOk THEN "shape" ELSE "conversion"
    /\ UNCHANGED <<args, frames, i, axes, values, data_list, ylims, legend, result>>

\* the loop at 103 ends before the loop at 110 begins
AfterFiniteFused(j, n) == [pc |-> "inf", i |-> j]
AfterFinite(j, n) ==
    IF j < n THEN [pc |-> "finite", i |-> j + 1] ELSE [pc |-> "inf", i |-> 1]

\* after the loop at 110 the call goes on to the legend; ax stays the last region
AfterInf(j, n) ==
    IF j < n THEN [pc |-> "inf", i |-> j + 1] ELSE [pc |-> "legend", i |-> j]

RECURSIVE DrawSeries(_, _, _, _, _)
\* lines 104-107 for one region: a series is drawn unless its column is
\* missing (df[y] raises KeyError); kinds[k] tells scatter from line
DrawSeries(axs, j, rows, ys, kinds) ==
    IF ys = <<>> \/ Head(ys) \notin Columns THEN axs
    ELSE DrawSeries(IF Head(kinds) = "scatter" THEN scatter(axs, j, rows, x, Head(ys))
                    ELSE plot(axs, j, rows, x, Head(ys)),
                    j, rows, Tail(ys), Tail(kinds))

SeriesKinds == [k \in 1..Len(y_dots) |-> "scatter"] \o [k \in 1..Len(y_line) |-> "line"]
AllSeriesExistDotsOnly == \A y \in SeqToSet(y_dots) : y \in Columns
AllSeriesExist == \A y \in SeqToSet(y_dots \o y_line) : y \in Columns

\* lines 103-107, one region: every y_dots column as markers, then every
\* y_line column as a line
DrawFinite ==
    /\ pc = "finite"
    /\ AllSeriesExist
    /\ axes' = DrawSeries(axes, i, frames[data_list[i]], y_dots \o y_line, SeriesKinds)
    /\ pc' = AfterFinite(i, Len(axes)).pc
    /\ i' = AfterFinite(i, Len(axes)).i
    /\ UNCHANGED <<args, frames, values, data_list, ylims, legend, result, err>>

DrawFiniteFail ==
    /\ pc = "finite"
    /\ ~AllSeriesExist
    /\ axes' = DrawSeries(axes, i, frames[data_list[i]], y_dots \o y_line, SeriesKinds)
    /\ pc' = "error" /\ err' = "lookup"
    /\ UNCHANGED <<args, frames, i, values, data_list, ylims, legend, result>>

\* line 117: df.empty
empty_never(rows) == FALSE
empty(rows) == rows = <<>>

RECURSIVE InfLoop(_, _, _, _, _, _)
\* lines 115-119 for one region: df is rebound to the rows whose y is
\* infinite, and the next column of y_dots is looked up in that frame
InfLoop(ys, h, df, axs, j, lim) ==
    IF ys = <<>> THEN [h |-> h, axs |-> axs]
    ELSE LET y == Head(ys)
             tgt == QueryTarget(df, FreshId(h))
             sel == ResetIndex(SelectSeq(h[df], LAMBDA row : IsInf(row[y])))
             clipped == [k \in 1..Len(sel) |-> [sel[k] EXCEPT ![y] = clip(@, lim)]]
         IN IF ~empty(sel)
            THEN InfLoop(Tail(ys), Store(h, tgt, clipped), tgt,
                         scatter(axs, j, clipped, x, y), j, lim)
            ELSE InfLoop(Tail(ys), Store(h, tgt, sel), tgt, axs, j, lim)

\* the frames a later statement can still reach: data and data_list
Live(h) == [k \in {DataId} \cup SeqToSet(data_list) |-> h[k]]

\* lines 110-120, one region: scale overrides, capture of the y range, the
\* boundary markers, restore of the y range
InfPass ==
    /\ pc = "inf"
    /\ LET scaled == ApplyScales(axes, i, scale_options, share_options)
           ylim == get_ylim(scaled, i, share_options)
           out == InfLoop(y_dots, frames, data_list[i], scaled, i, ylim)
       IN /\ ylims' = [ylims EXCEPT ![i] = ylim]
          /\ axes' = set_ylim(out.axs, i, ylim, share_options)
          /\ frames' = Live(out.h)
    /\ pc' = AfterInf(i, Len(axes)).pc
    /\ i' = AfterInf(i, Len(axes)).i
    /\ UNCHANGED <<args, values, data_list, legend, result, err>>

\* line 123: ax.get_legend_handles_labels() of the last region of the loop
Labels(ax) == [k \in 1..Len(ax.artists) |-> ax.artists[k].label]

\* lines 122-131: the shared legend, then return fig
Legend ==
    /\ pc = "legend"
    /\ legend' = [labels |-> Labels(axes[i]), ncol |-> Len(Labels(axes[i]))]
    /\ result' = "fig"
    /\ pc' = "done"
    /\ UNCHANGED <<args, frames, i, axes, values, data_list, ylims, err>>

Next ==
    \/ Layout
    \/ LayoutFail
    \/ RecoverKeys
    \/ RecoverKeysFail
    \/ DrawFinite
    \/ DrawFiniteFail
    \/ InfPass
    \/ Legend

Spec == Init /\ [][Next]_vars

\* ------------------------------------------------------------- properties
Regions == 1..Len(axes)
\* data_list is bound: the call is past line 101
Paired == pc \in {"finite", "inf", "legend", "done"}
Faceted == By(facet_options) # <<>>
Subset(k) == frames[data_list[k]]
NSeries == Len(y_dots) + Len(y_line)
\* the artists of region k drawn by the loop at 103 / added by the loop at 110
FiniteArtists(k) ==
    SubSeq(axes[k].artists, 1, IF Len(axes[k].artists) < NSeries
                               THEN Len(axes[k].artists) ELSE NSeries)
BoundaryArtists(k) == SubSeq(axes[k].artists, NSeries + 1, Len(axes[k].artists))
PtsOf(arts) == UNION {{a.pts[m] : m \in 1..Len(a.pts)} : a \in SeqToSet(arts)}
Captured(k) == ylims[k] # NoLim
MissingColumn == x \notin Columns \/ ~AllSeriesExist
FinalYScale ==
    IF \E m \in 1..Len(scale_options) : scale_options[m] = <<"y", "log">>
    THEN "log" ELSE "linear"
\* the key the layout engine holds for region k, on the columns of by
EngineKey(k) ==
    [b \in SeqToSet(By(facet_options)) |->
        IF b = facet_options.col THEN axes[k].key.col ELSE axes[k].key.row]
RowsAt(key) == SelectSeq(data_in, LAMBDA row : \A b \in DOMAIN key : row[b] = key[b])
DistinctVals(b) == {data_in[m][b] : m \in 1..Len(data_in)}

\* C1: with facet keys configured, every row of data is in the subset of
\* exactly one region (no row lost, none duplicated).
C1_Partition ==
    (Paired /\ Faceted) =>
        \A m \in 1..Len(data_in) :
            Cardinality({k \in Regions :
                \E n \in 1..Len(Subset(k)) : Subset(k)[n].idx = data_in[m].idx}) = 1

\* C2 (as claimed): the number of regions equals the number of distinct
\* combinations of the facet keys present in the data; with no facet keys
\* there is one region holding all rows.
C2_PresentCombinations ==
    /\ (pc # "layout" /\ pc # "error") =>
            Len(axes) = Cardinality({[b \in SeqToSet(By(facet_options)) |-> data_in[m][b]] :
                                        m \in 1..Len(data_in)})
    /\ (Paired /\ ~Faceted) => (Len(axes) = 1 /\ Subset(1) = data_in)

\* C2 (amended): the number of regions equals the number of distinct col
\* values times the number of distinct row values (a key that is not
\* configured counts once), so a grid of two keys also has a region for each
\* combination that has no row; with no facet keys there is one region
\* holding all rows.
C2_GridOfValues ==
    /\ (pc # "layout" /\ pc # "error") =>
            Len(axes) =
                (IF facet_options.col = "none" THEN 1
                 ELSE Cardinality(DistinctVals(facet_options.col)))
              * (IF facet_options.row = "none" THEN 1
                 ELSE Cardinality(DistinctVals(facet_options.row)))
    /\ (Paired /\ ~Faceted) => (Len(axes) = 1 /\ Subset(1) = data_in)

C2_Witness ==
    /\ pc = "done" /\ facet_options = GridFacet
    /\ Len(axes) = 4 /\ Len(data_in) = 2

\* C3: the legend has exactly one entry per distinct label of y_dots and
\* y_line, and as many columns as distinct labels.
C3_LegendDeduplicated ==
    pc = "done" =>
        /\ SeqToSet(legend.labels) = SeqToSet(y_dots \o y_line)
        /\ Len(legend.labels) = Cardinality(SeqToSet(y_dots \o y_line))
        /\ legend.ncol = Cardinality(SeqToSet(y_dots \o y_line))

\* C4: for every region and every column y of y_dots, every row of the
\* region's subset whose y is infinite has a boundary marker labelled y at
\* the captured bound (+inf at the upper, -inf at the lower).
C4_EveryInfiniteMarked ==
    pc = "done" =>
        \A k \in Regions : \A y \in SeqToSet(y_dots) :
            \A n \in 1..Len(Subset(k)) :
                IsInf(Subset(k)[n][y]) =>
                    \E a \in SeqToSet(BoundaryArtists(k)) :
                        /\ a.label = y
                        /\ <<Subset(k)[n][x], clip(Subset(k)[n][y], ylims[k])>>
                               \in PtsOf(<<a>>)

\* C5: in every region whose infinite-value pass is over, the scale
\* overrides were applied before the range was captured (the captured range
\* is the autoscaled range of the finite data under the final scale), the
\* range after the boundary markers equals the captured range, and every
\* boundary marker lies at a bound of that range.
C5_RangeRestored ==
    \A k \in Regions :
        (Paired /\ Captured(k)) =>
            /\ axes[k].yscale = FinalYScale
            /\ ylims[k] = AutoLim(UNION {{p[2] : p \in PtsOf(FiniteArtists(g))} :
                                          g \in YGroup(axes, k, share_options)},
                                  FinalYScale)
            /\ get_ylim(axes, k, share_options) = ylims[k]
            /\ \A p \in PtsOf(BoundaryArtists(k)) :
                   p[2] \in {get_ylim(axes, k, share_options)[1],
                             get_ylim(axes, k, share_options)[2]}

C5_Witness ==
    /\ pc = "done" /\ Len(axes) = 2 /\ scale_options # <<>>
    /\ ~share_options.y
    /\ ylims[1] # ylims[2]
    /\ \E k \in Regions : PtsOf(BoundaryArtists(k)) # {}

\* C6: the caller's dataset is never changed by the call.
C6_DataUnchanged == data = data_in

C6_Witness ==
    /\ pc = "done" /\ ~Faceted /\ data_list = <<DataId>>
    /\ PtsOf(BoundaryArtists(1)) # {}

\* C7: a region whose subset is empty raises nothing: it carries no marker,
\* no line point and no boundary marker, and the call goes on to return the
\* figure.
C7_EmptyRegion ==
    /\ (pc \in {"finite", "inf"} /\ AllSeriesExist /\ Subset(i) = <<>>) =>
            ENABLED (DrawFinite \/ InfPass)
    /\ (AllSeriesExist /\ pc = "error") => err \in {"shape", "conversion"} \/ x \notin Columns
    /\ \A k \in Regions :
          (Paired /\ Subset(k) = <<>>) =>
              /\ PtsOf(axes[k].artists) = {}
              /\ Len(axes[k].artists) <= NSeries
              /\ (pc = "done" => Len(axes[k].artists) = NSeries /\ result = "fig")

C7_Witness ==
    /\ pc = "done" /\ result = "fig"
    /\ \E k \in Regions : Subset(k) = <<>>
    /\ \E k \in Regions : PtsOf(BoundaryArtists(k)) # {}

C9_RoundTrip ==
    /\ pc = "error" => err \notin {"shape", "conversion"}
    /\ (Paired /\ Faceted) =>
            \A k \in Regions :
                /\ values[k] = EngineKey(k)
                /\ Subset(k) = RowsAt(EngineKey(k))

\* C10: once any region's range is captured (or the second loop has begun),
\* the finite series of every region are drawn and none is drawn later; on a
\* shared y axis the captured range is the autoscaled range of the finite
\* values of all regions.
C10_TwoPasses ==
    (Paired /\ (pc # "finite" \/ \E k \in Regions : Captured(k))) =>
        /\ pc # "finite"
        /\ \A k \in Regions : Len(axes[k].artists) >= NSeries
        /\ \A k \in Regions :
              (share_options.y /\ Captured(k)) =>
                  ylims[k] = AutoLim(UNION {{Subset(g)[n][y] :
                                                n \in 1..Len(Subset(g)),
                                                y \in SeqToSet(y_dots \o y_line)} :
                                             g \in Regions} \ {NegInf, PosInf},
                                     FinalYScale)

C10_Witness ==
    /\ pc = "done" /\ share_options.y /\ Len(axes) = 2
    /\ PtsOf(FiniteArtists(1)) # {} /\ PtsOf(FiniteArtists(2)) # {}
    /\ {p[2] : p \in PtsOf(FiniteArtists(1))} # {p[2] : p \in PtsOf(FiniteArtists(2))}

====
